---- MODULE Spec2Model ----
(***************************************************************************)
(* Model of plane_tracker (src/app.py, src/plane_tracker.py): the refresh  *)
(* pass build_matching_list, the snapshot cache _cache guarded by          *)
(* _cache_lock, the background poller with its backoff, and the request    *)
(* handlers api_flights, api_flights_simple and health.                    *)
(*                                                                         *)
(* Coordinates are degrees times 10 (25.0 -> 250), so that the polygon     *)
(* test stays in the integers.  Airport codes are sequences of characters, *)
(* so that upper() and startswith() are computed and not assumed.          *)
(***************************************************************************)
EXTENDS Integers, Sequences, FiniteSets, TLC

VARIABLES
    POLL_INTERVAL,          \* app.py:35, the configured base interval
    MAX_AIRCRAFT_TO_QUERY,  \* app.py:37, the configured cap
    cache,                  \* app.py:71, _cache = {"ts", "results"}
    cache_lock,             \* app.py:72, the thread holding _cache_lock
    results_ts,             \* history: the time.time() value of the write that stored cache.results
    now,                    \* the value the next time.time() call of a writer returns
    pc,                     \* where each thread stands
    bm,                     \* each thread's build_matching_list frame
    results,                \* each thread's new_results / results local
    my_ts,                  \* each writer's own time.time() value (app.py:220, 238, 256)
    sleep_s,                \* app.py:213, the poller's backoff interval
    req,                    \* what each request thread was asked
    resp,                   \* what each request thread answered
    fetch_order,            \* history: the threads in the order of the RegionQuery calls of
                            \* their passes, as far as no later-fetched pass has been written
    stale,                  \* history: the threads whose pass called RegionQuery before a
                            \* pass that has since been written to the cache
    api,                    \* app.py:69, _api: 0 for None, else the number of the client
    api_lock,               \* app.py:68, the thread holding _api_lock
    built,                  \* history: how many OpenSkyApi clients have been constructed
    gpc,                    \* where each thread stands in get_api
    client,                 \* each thread's OpenSkyApi(...) value before it is assigned
    got,                    \* what get_api last returned to each thread, 0 for None
    calls                   \* how many calls of get_api each thread has made

\* the history of the order of fetches
fetch_vars == <<fetch_order, stale>>

\* the state of get_api
api_vars == <<api, api_lock, built, gpc, client, got, calls>>

\* the state of the poller, the handlers and the cache
pass_vars == <<POLL_INTERVAL, MAX_AIRCRAFT_TO_QUERY, cache, cache_lock, results_ts, now,
               pc, bm, results, my_ts, sleep_s, req, resp, fetch_vars>>

vars == <<pass_vars, api_vars>>

----------------------------------------------------------------------------
(* Bounds of the model *)

MaxStates == 2      \* longest state-vector list RegionQuery returns
MaxSegs == 2        \* longest flight list HistoryQuery returns
MaxCap == 2         \* largest MAX_AIRCRAFT_TO_QUERY tried
MaxBase == 125      \* largest POLL_INTERVAL tried
MaxTime == 2        \* the clock stops advancing here
MaxCalls == 2       \* most calls of get_api one thread makes

(* Program constants *)

BackoffMax == 120           \* app.py:227
StaleAfter == 300           \* app.py:295
DefaultPollInterval == 20   \* app.py:35
DefaultMaxAircraft == 120   \* app.py:37
LonMin == 250               \* app.py:45
LonMax == 455               \* app.py:46
LatMin == 350               \* app.py:45
LatMax == 425               \* app.py:47

Min(a, b) == IF a < b THEN a ELSE b
Max(a, b) == IF a > b THEN a ELSE b

----------------------------------------------------------------------------
(* Threads *)

Poller == "poller"
Requests == {"r1", "r2"}
Threads == {Poller} \cup Requests
NoThread == "none"

----------------------------------------------------------------------------
(* Data: optional values, airport codes, state vectors, flights *)

NoneStr == [none |-> TRUE, s |-> <<>>]
Str(s) == [none |-> FALSE, s |-> s]
NoneNum == [none |-> TRUE, v |-> 0]
Num(v) == [none |-> FALSE, v |-> v]

UpperChar(c) ==
    CASE c = "l" -> "L"
      [] c = "b" -> "B"
      [] c = "g" -> "G"
      [] c = "t" -> "T"
      [] c = "a" -> "A"
      [] OTHER -> c

\* str.upper()
Upper(s) == [k \in 1..Len(s) |-> UpperChar(s[k])]

\* str.startswith(prefix)
StartsWith(s, prefix) ==
    Len(s) >= Len(prefix) /\ SubSeq(s, 1, Len(prefix)) = prefix

\* the predicate without the prefix test
is_any_airport(icao) == ~icao.none /\ icao.s # <<>>

\* bool(icao) and icao.upper().startswith("LL")
is_israel_airport(icao) ==
    /\ ~icao.none
    /\ icao.s # <<>>
    /\ StartsWith(Upper(icao.s), <<"L", "L">>)

Flight(dep, arr) == [estDepartureAirport |-> dep, estArrivalAirport |-> arr]

LLBG == Str(<<"L", "L", "B", "G">>)
llbg == Str(<<"l", "l", "b", "g">>)
LTBA == Str(<<"L", "T", "B", "A">>)
EmptyStr == Str(<<>>)

\* the flights the history endpoint is made to return
Flights ==
    { Flight(LLBG, LTBA), Flight(LTBA, llbg), Flight(LTBA, LTBA), Flight(NoneStr, EmptyStr) }

\* a well-formed StateVector, and an element of the payload that is no StateVector
\* (reading its longitude raises)
StateVector(id, lon, lat) ==
    [ok |-> TRUE, icao24 |-> id, longitude |-> lon, latitude |-> lat]
BadVector == [ok |-> FALSE, icao24 |-> "x", longitude |-> NoneNum, latitude |-> NoneNum]

SvA == StateVector("a", Num(300), Num(390))     \* inside the polygon
SvB == StateVector("b", Num(400), Num(400))     \* inside the polygon
SvOut == StateVector("c", Num(250), Num(390))   \* on the western edge: not contained
SvNoLat == StateVector("d", Num(300), NoneNum)  \* no latitude

StateVectors == {SvA, SvB, SvOut, SvNoLat, BadVector}

SeqsUpTo(S, n) == UNION { [1..k -> S] : k \in 0..n }

\* the outcome of an upstream call: it failed, or it returned a list
Failed == [failed |-> TRUE, value |-> <<>>]
Returned(v) == [failed |-> FALSE, value |-> v]

RegionOutcomes == {Failed} \cup { Returned(s) : s \in SeqsUpTo(StateVectors, MaxStates) }
HistoryOutcomes == {Failed} \cup { Returned(s) : s \in SeqsUpTo(Flights, MaxSegs) }

\* the few outcomes used where several threads run passes at once
FewRegionOutcomes == {Failed, Returned(<<SvA>>), Returned(<<BadVector>>)}
FewHistoryOutcomes == {Failed, Returned(<<Flight(LLBG, LTBA)>>)}

----------------------------------------------------------------------------
(* The pass: build_matching_list and what it calls *)

\* the test that takes the boundary of the rectangle in, as covers does
Covers(lon, lat) ==
    /\ lon >= LonMin /\ lon <= LonMax
    /\ lat >= LatMin /\ lat <= LatMax

\* TURKEY_POLY.contains(Point(lon, lat)): the interior of the rectangle
Contains(lon, lat) ==
    /\ lon > LonMin /\ lon < LonMax
    /\ lat > LatMin /\ lat < LatMax

\* one element of state_vectors is kept by aircraft_over_turkey
IsHit(s) ==
    /\ ~s.longitude.none
    /\ ~s.latitude.none
    /\ Contains(s.longitude.v, s.latitude.v)

Hit(s) == [icao24 |-> s.icao24, lon |-> s.longitude.v, lat |-> s.latitude.v]

\* the filter that returns the hits last first
RECURSIVE aircraft_over_turkey_reversed(_)
aircraft_over_turkey_reversed(state_vectors) ==
    IF state_vectors = <<>> THEN <<>>
    ELSE IF IsHit(Head(state_vectors))
         THEN aircraft_over_turkey_reversed(Tail(state_vectors)) \o <<Hit(Head(state_vectors))>>
         ELSE aircraft_over_turkey_reversed(Tail(state_vectors))

RECURSIVE aircraft_over_turkey(_)
aircraft_over_turkey(state_vectors) ==
    IF state_vectors = <<>> THEN <<>>
    ELSE IF IsHit(Head(state_vectors))
         THEN <<Hit(Head(state_vectors))>> \o aircraft_over_turkey(Tail(state_vectors))
         ELSE aircraft_over_turkey(Tail(state_vectors))

\* aircraft_over_turkey raises on an element that has no longitude attribute
Raises(state_vectors) == \E k \in 1..Len(state_vectors) : ~state_vectors[k].ok

\* the slice s[:n] of Python
SliceAll(s, n) == s
Slice(s, n) ==
    IF n >= 0 THEN SubSeq(s, 1, Min(n, Len(s)))
    ELSE SubSeq(s, 1, Max(Len(s) + n, 0))

\* the selection that looks at the departure airport alone
RECURSIVE matched_by_departure(_)
matched_by_departure(flights) ==
    IF flights = <<>> THEN <<>>
    ELSE IF is_israel_airport(Head(flights).estDepartureAirport)
         THEN <<Head(flights)>> \o matched_by_departure(Tail(flights))
         ELSE matched_by_departure(Tail(flights))

\* the flights of one aircraft that touch a flagged airport, in input order
RECURSIVE matched_info(_)
matched_info(flights) ==
    IF flights = <<>> THEN <<>>
    ELSE IF \/ is_israel_airport(Head(flights).estDepartureAirport)
            \/ is_israel_airport(Head(flights).estArrivalAirport)
         THEN <<Head(flights)>> \o matched_info(Tail(flights))
         ELSE matched_info(Tail(flights))

Match(ac, info) ==
    [icao24 |-> ac.icao24, lon |-> ac.lon, lat |-> ac.lat, matched_flights |-> info]

\* query_recent_flights: a failure of the upstream call is an empty list
query_recent_flights(outcome) == IF outcome.failed THEN <<>> ELSE outcome.value

\* the locals of build_matching_list; flights and matched_info are those of the
\* last iteration of the loop
NoFrame ==
    [status |-> "none", rq_failed |-> FALSE, state_vectors |-> <<>>,
     turkish_aircraft |-> <<>>, i |-> 1, flights |-> <<>>, matched_info |-> <<>>,
     matches |-> <<>>, hq_calls |-> 0, hq_failures |-> 0]

\* what follows build_matching_list in the caller
AfterReturn(t) == "w_acquire"
AfterRaise(t) == IF t = Poller THEN "except" ELSE "done"

\* a response: last_update 0 stands for null; results_ts is history, the time.time()
\* value of the write that stored the results the response was built from
NoResponse ==
    [kind |-> "none", fetched_at |-> 0, last_update |-> 0, count |-> 0, results |-> <<>>,
     age_ts |-> 0, status |-> "none", results_ts |-> 0]
\* an exception escaping a handler: Flask answers 500
ErrorResponse == [NoResponse EXCEPT !.kind = "error"]

\* the frame of a call of build_matching_list that has entered RegionQuery
NewFrame == [NoFrame EXCEPT !.status = "running"]

\* what is left of a frame once its caller has the return value
Spent(frame) ==
    [NoFrame EXCEPT !.status = frame.status, !.rq_failed = frame.rq_failed]

\* except Exception around fetch_states_over_turkey: return []
FetchFailedRaises(t) ==
    /\ pc' = [pc EXCEPT ![t] = AfterRaise(t)]
    /\ bm' = [bm EXCEPT ![t] = [@ EXCEPT !.status = "raised", !.rq_failed = TRUE]]
    /\ resp' = IF t \in Requests THEN [resp EXCEPT ![t] = ErrorResponse] ELSE resp
    /\ UNCHANGED results
FetchFailed(t) ==
    /\ pc' = [pc EXCEPT ![t] = AfterReturn(t)]
    /\ bm' = [bm EXCEPT ![t] = [@ EXCEPT !.status = "returned", !.rq_failed = TRUE]]
    /\ results' = [results EXCEPT ![t] = <<>>]
    /\ UNCHANGED resp

\* history: thread t has called RegionQuery for a new pass
Fetched(t) ==
    /\ fetch_order' = Append(SelectSeq(fetch_order, LAMBDA u : u # t), t)
    /\ stale' = stale \ {t}

\* history: thread t has written its pass to the cache; the passes fetched
\* before it are stale from now on
Written(t) ==
    LET at == { k \in 1..Len(fetch_order) : fetch_order[k] = t }
    IN IF at = {}
       THEN /\ fetch_order' = fetch_order
            /\ stale' = stale \ {t}
       ELSE LET p == CHOOSE k \in at : TRUE
            IN /\ fetch_order' = SubSeq(fetch_order, p + 1, Len(fetch_order))
               /\ stale' = stale \cup { fetch_order[k] : k \in 1..(p - 1) }

\* fetch_states_over_turkey returns or fails
BmFetch(t, outcomes) ==
    /\ pc[t] = "bm_fetch"
    /\ \E o \in outcomes :
          IF o.failed
          THEN FetchFailed(t)
          ELSE /\ pc' = [pc EXCEPT ![t] = "bm_filter"]
               /\ bm' = [bm EXCEPT ![t] = [@ EXCEPT !.state_vectors = o.value]]
               /\ UNCHANGED <<results, resp>>
    /\ Fetched(t)
    /\ UNCHANGED <<api_vars, POLL_INTERVAL, MAX_AIRCRAFT_TO_QUERY, cache, cache_lock, results_ts,
                   now, my_ts, sleep_s, req>>

\* aircraft_over_turkey(state_vectors)[:MAX_AIRCRAFT_TO_QUERY], outside any try
BmFilter(t) ==
    /\ pc[t] = "bm_filter"
    /\ IF Raises(bm[t].state_vectors)
       THEN /\ pc' = [pc EXCEPT ![t] = AfterRaise(t)]
            /\ bm' = [bm EXCEPT ![t] = [@ EXCEPT !.status = "raised"]]
            /\ resp' = IF t \in Requests THEN [resp EXCEPT ![t] = ErrorResponse] ELSE resp
       ELSE /\ pc' = [pc EXCEPT ![t] = "bm_loop"]
            /\ bm' = [bm EXCEPT ![t] = [@ EXCEPT !.turkish_aircraft =
                        Slice(aircraft_over_turkey(bm[t].state_vectors),
                              MAX_AIRCRAFT_TO_QUERY)]]
            /\ UNCHANGED resp
    /\ UNCHANGED <<api_vars, fetch_vars, POLL_INTERVAL, MAX_AIRCRAFT_TO_QUERY, cache, cache_lock, results_ts,
                   now, results, my_ts, sleep_s, req>>

\* the iteration in which a failure of HistoryQuery ends the loop with no result
BmLoopAborting(t, outcomes) ==
    /\ pc[t] = "bm_loop"
    /\ bm[t].i <= Len(bm[t].turkish_aircraft)
    /\ \E o \in outcomes :
          LET ac == bm[t].turkish_aircraft[bm[t].i]
              flights == query_recent_flights(o)
              info == matched_info(flights)
          IN bm' = [bm EXCEPT ![t] = [@ EXCEPT
                      !.i = IF o.failed THEN Len(bm[t].turkish_aircraft) + 1 ELSE @ + 1,
                      !.flights = flights,
                      !.matched_info = info,
                      !.hq_calls = @ + 1,
                      !.hq_failures = IF o.failed THEN @ + 1 ELSE @,
                      !.matches = IF o.failed THEN <<>>
                                  ELSE IF info # <<>> THEN Append(@, Match(ac, info))
                                  ELSE @]]
    /\ UNCHANGED <<api_vars, fetch_vars, POLL_INTERVAL, MAX_AIRCRAFT_TO_QUERY, cache, cache_lock, results_ts,
                   now, pc, results, my_ts, sleep_s, req, resp>>

\* one iteration of for ac in turkish_aircraft: HistoryQuery, selection, append
BmLoop(t, outcomes) ==
    /\ pc[t] = "bm_loop"
    /\ bm[t].i <= Len(bm[t].turkish_aircraft)
    /\ \E o \in outcomes :
          LET ac == bm[t].turkish_aircraft[bm[t].i]
              flights == query_recent_flights(o)
              info == matched_info(flights)
          IN bm' = [bm EXCEPT ![t] = [@ EXCEPT
                      !.i = @ + 1,
                      !.flights = flights,
                      !.matched_info = info,
                      !.hq_calls = @ + 1,
                      !.hq_failures = IF o.failed THEN @ + 1 ELSE @,
                      !.matches = IF info # <<>> THEN Append(@, Match(ac, info)) ELSE @]]
    /\ UNCHANGED <<api_vars, fetch_vars, POLL_INTERVAL, MAX_AIRCRAFT_TO_QUERY, cache, cache_lock, results_ts,
                   now, pc, results, my_ts, sleep_s, req, resp>>

\* return matches
BmReturn(t) ==
    /\ pc[t] = "bm_loop"
    /\ bm[t].i > Len(bm[t].turkish_aircraft)
    /\ pc' = [pc EXCEPT ![t] = AfterReturn(t)]
    /\ bm' = [bm EXCEPT ![t] = [@ EXCEPT !.status = "returned"]]
    /\ results' = [results EXCEPT ![t] = bm[t].matches]
    /\ UNCHANGED <<api_vars, fetch_vars, POLL_INTERVAL, MAX_AIRCRAFT_TO_QUERY, cache, cache_lock, results_ts,
                   now, my_ts, sleep_s, req, resp>>

----------------------------------------------------------------------------
(* The snapshot cache: with _cache_lock, and the two assignments under it *)

\* Lock.acquire() goes through when no thread holds the lock
CanAcquireAlways(t) == TRUE
CanAcquire(t) == cache_lock = NoThread

\* time.time() of a writer: the clock moves on with every call, up to MaxTime
Tick(n) == Min(n + 1, MaxTime)

\* sleep_s = POLL_INTERVAL  # reset on success
BackoffKeep(s, base) == s
BackoffReset(s, base) == base

\* sleep_s = min(max(int(sleep_s * 1.5), POLL_INTERVAL), 120)
BackoffGrow(s, base) == Min(Max((s * 3) \div 2, base), BackoffMax)

\* with _cache_lock: entered by the poller or by a force-refresh
WriterAcquire(t) ==
    /\ pc[t] = "w_acquire"
    /\ CanAcquire(t)
    /\ cache_lock' = t
    /\ pc' = [pc EXCEPT ![t] = "w_ts"]
    /\ bm' = [bm EXCEPT ![t] = Spent(@)]
    /\ UNCHANGED <<api_vars, fetch_vars, POLL_INTERVAL, MAX_AIRCRAFT_TO_QUERY, cache, results_ts, now,
                   results, my_ts, sleep_s, req, resp>>

\* _cache["ts"] = time.time()
WriterSetTs(t) ==
    /\ pc[t] = "w_ts"
    /\ cache' = [cache EXCEPT !.ts = now]
    /\ my_ts' = [my_ts EXCEPT ![t] = now]
    /\ now' = Tick(now)
    /\ pc' = [pc EXCEPT ![t] = "w_results"]
    /\ UNCHANGED <<api_vars, fetch_vars, POLL_INTERVAL, MAX_AIRCRAFT_TO_QUERY, cache_lock, results_ts, bm,
                   results, sleep_s, req, resp>>

\* _cache["results"] = new_results, the lock is released; the poller then resets
\* its interval, a force-refresh goes on to read the cache; the local is dead
WriterSetResults(t) ==
    /\ pc[t] = "w_results"
    /\ cache' = [cache EXCEPT !.results = results[t]]
    /\ results_ts' = my_ts[t]
    /\ cache_lock' = NoThread
    /\ sleep_s' = IF t = Poller THEN BackoffReset(sleep_s, POLL_INTERVAL) ELSE sleep_s
    /\ pc' = [pc EXCEPT ![t] = IF t = Poller THEN "sleep" ELSE "r_acquire"]
    /\ results' = [results EXCEPT ![t] = <<>>]
    /\ Written(t)
    /\ UNCHANGED <<api_vars, POLL_INTERVAL, MAX_AIRCRAFT_TO_QUERY, now, bm, my_ts, req, resp>>

----------------------------------------------------------------------------
(* The background poller *)

\* except Exception: the handler that also published an empty snapshot
PollerExceptPublishing ==
    /\ pc[Poller] = "except"
    /\ sleep_s' = BackoffGrow(sleep_s, POLL_INTERVAL)
    /\ cache' = [ts |-> now, results |-> <<>>]
    /\ results_ts' = now
    /\ pc' = [pc EXCEPT ![Poller] = "sleep"]
    /\ UNCHANGED <<api_vars, fetch_vars, POLL_INTERVAL, MAX_AIRCRAFT_TO_QUERY, cache_lock, now, bm,
                   results, my_ts, req, resp>>

\* except Exception: the handler that also marked the cache as never written
PollerExceptInvalidating ==
    /\ pc[Poller] = "except"
    /\ sleep_s' = BackoffGrow(sleep_s, POLL_INTERVAL)
    /\ cache' = [cache EXCEPT !.ts = 0]
    /\ pc' = [pc EXCEPT ![Poller] = "sleep"]
    /\ UNCHANGED <<api_vars, fetch_vars, POLL_INTERVAL, MAX_AIRCRAFT_TO_QUERY, cache_lock, results_ts, now,
                   bm, results, my_ts, req, resp>>

\* except Exception: the handler that let the thread end
PollerExceptStops ==
    /\ pc[Poller] = "except"
    /\ sleep_s' = BackoffGrow(sleep_s, POLL_INTERVAL)
    /\ pc' = [pc EXCEPT ![Poller] = "stopped"]
    /\ UNCHANGED <<api_vars, fetch_vars, POLL_INTERVAL, MAX_AIRCRAFT_TO_QUERY, cache, cache_lock, results_ts,
                   now, bm, results, my_ts, req, resp>>

\* except Exception: back off, publish nothing
PollerExcept ==
    /\ pc[Poller] = "except"
    /\ sleep_s' = BackoffGrow(sleep_s, POLL_INTERVAL)
    /\ pc' = [pc EXCEPT ![Poller] = "sleep"]
    /\ UNCHANGED <<api_vars, fetch_vars, POLL_INTERVAL, MAX_AIRCRAFT_TO_QUERY, cache, cache_lock, results_ts,
                   now, bm, results, my_ts, req, resp>>

\* the loop that calls build_matching_list inside with _cache_lock
PollerSleepThenLock ==
    /\ pc[Poller] = "sleep"
    /\ CanAcquire(Poller)
    /\ cache_lock' = Poller
    /\ pc' = [pc EXCEPT ![Poller] = "bm_fetch"]
    /\ bm' = [bm EXCEPT ![Poller] = NewFrame]
    /\ results' = [results EXCEPT ![Poller] = <<>>]
    /\ my_ts' = [my_ts EXCEPT ![Poller] = 0]
    /\ UNCHANGED <<api_vars, fetch_vars, POLL_INTERVAL, MAX_AIRCRAFT_TO_QUERY, cache, results_ts,
                   now, sleep_s, req, resp>>

\* time.sleep(sleep_s), then the next iteration of while True calls
\* build_matching_list, which enters RegionQuery
PollerSleep ==
    /\ pc[Poller] = "sleep"
    /\ pc' = [pc EXCEPT ![Poller] = "bm_fetch"]
    /\ bm' = [bm EXCEPT ![Poller] = NewFrame]
    /\ results' = [results EXCEPT ![Poller] = <<>>]
    /\ my_ts' = [my_ts EXCEPT ![Poller] = 0]
    /\ UNCHANGED <<api_vars, fetch_vars, POLL_INTERVAL, MAX_AIRCRAFT_TO_QUERY, cache, cache_lock, results_ts,
                   now, sleep_s, req, resp>>

----------------------------------------------------------------------------
(* The request handlers *)

Kinds == {"flights", "simple", "health"}

\* a request arrives; nocache=1 makes api_flights and api_flights_simple run a pass
RequestStart(r) ==
    /\ pc[r] = "idle"
    /\ \E k \in Kinds, nc \in BOOLEAN :
          /\ k = "health" => ~nc
          /\ req' = [req EXCEPT ![r] = [kind |-> k, nocache |-> nc]]
          /\ pc' = [pc EXCEPT ![r] = IF nc THEN "bm_fetch" ELSE "r_acquire"]
          /\ bm' = [bm EXCEPT ![r] = IF nc THEN NewFrame ELSE @]
    /\ UNCHANGED <<api_vars, fetch_vars, POLL_INTERVAL, MAX_AIRCRAFT_TO_QUERY, cache, cache_lock, results_ts,
                   now, results, my_ts, sleep_s, resp>>

\* with _cache_lock: entered by a reader
ReaderAcquire(r) ==
    /\ pc[r] = "r_acquire"
    /\ CanAcquire(r)
    /\ cache_lock' = r
    /\ pc' = [pc EXCEPT ![r] = CASE req[r].kind = "flights" -> "f_ts"
                                  [] req[r].kind = "simple" -> "s_results"
                                  [] OTHER -> "h_age"]
    /\ UNCHANGED <<api_vars, fetch_vars, POLL_INTERVAL, MAX_AIRCRAFT_TO_QUERY, cache, results_ts, now, bm,
                   results, my_ts, sleep_s, req, resp>>

\* api_flights: "fetched_at": int(_cache["ts"])
FlightsReadTs(r) ==
    /\ pc[r] = "f_ts"
    /\ resp' = [resp EXCEPT ![r] = [@ EXCEPT !.fetched_at = cache.ts]]
    /\ pc' = [pc EXCEPT ![r] = "f_results"]
    /\ UNCHANGED <<api_vars, fetch_vars, POLL_INTERVAL, MAX_AIRCRAFT_TO_QUERY, cache, cache_lock, results_ts,
                   now, bm, results, my_ts, sleep_s, req>>

\* api_flights: "count", "results", "last_update"; the lock is released on return
FlightsReadResults(r) ==
    /\ pc[r] = "f_results"
    /\ resp' = [resp EXCEPT ![r] = [@ EXCEPT
                  !.kind = "flights",
                  !.count = Len(cache.results),
                  !.results = cache.results,
                  !.last_update = cache.ts,
                  !.results_ts = results_ts]]
    /\ cache_lock' = NoThread
    /\ pc' = [pc EXCEPT ![r] = "done"]
    /\ UNCHANGED <<api_vars, fetch_vars, POLL_INTERVAL, MAX_AIRCRAFT_TO_QUERY, cache, results_ts, now, bm,
                   results, my_ts, sleep_s, req>>

\* api_flights_simple: one entry of the simple format
Simple(result) == [icao |-> result.icao24, lat |-> result.lat, lon |-> result.lon]

\* api_flights_simple: the loop over _cache["results"]
SimpleReadResults(r) ==
    /\ pc[r] = "s_results"
    /\ resp' = [resp EXCEPT ![r] = [@ EXCEPT
                  !.results = [k \in 1..Len(cache.results) |-> Simple(cache.results[k])],
                  !.count = Len(cache.results),
                  !.results_ts = results_ts]]
    /\ pc' = [pc EXCEPT ![r] = "s_ts"]
    /\ UNCHANGED <<api_vars, fetch_vars, POLL_INTERVAL, MAX_AIRCRAFT_TO_QUERY, cache, cache_lock, results_ts,
                   now, bm, results, my_ts, sleep_s, req>>

\* api_flights_simple: "last_update"; the lock is released on return
SimpleReadTs(r) ==
    /\ pc[r] = "s_ts"
    /\ resp' = [resp EXCEPT ![r] = [@ EXCEPT !.kind = "simple", !.last_update = cache.ts]]
    /\ cache_lock' = NoThread
    /\ pc' = [pc EXCEPT ![r] = "done"]
    /\ UNCHANGED <<api_vars, fetch_vars, POLL_INTERVAL, MAX_AIRCRAFT_TO_QUERY, cache, results_ts, now, bm,
                   results, my_ts, sleep_s, req>>

\* health: cache_age from _cache["ts"] under the lock, which is then released
HealthAge(r) ==
    /\ pc[r] = "h_age"
    /\ resp' = [resp EXCEPT ![r] = [@ EXCEPT
                  !.age_ts = cache.ts,
                  !.status = IF cache.ts # 0 /\ now - cache.ts < StaleAfter
                             THEN "healthy" ELSE "stale"]]
    /\ cache_lock' = NoThread
    /\ pc' = [pc EXCEPT ![r] = "h_len"]
    /\ UNCHANGED <<api_vars, fetch_vars, POLL_INTERVAL, MAX_AIRCRAFT_TO_QUERY, cache, results_ts, now, bm,
                   results, my_ts, sleep_s, req>>

\* health: 'cached_flights': len(_cache["results"]), read after the with block
HealthLen(r) ==
    /\ pc[r] = "h_len"
    /\ resp' = [resp EXCEPT ![r] = [@ EXCEPT
                  !.kind = "health",
                  !.count = Len(cache.results),
                  !.results_ts = results_ts]]
    /\ pc' = [pc EXCEPT ![r] = "done"]
    /\ UNCHANGED <<api_vars, fetch_vars, POLL_INTERVAL, MAX_AIRCRAFT_TO_QUERY, cache, cache_lock, results_ts,
                   now, bm, results, my_ts, sleep_s, req>>

----------------------------------------------------------------------------
(* The state after the module is loaded and the poller thread has run     *)
(* sleep_s = POLL_INTERVAL and called build_matching_list                  *)

InitWith(bases, caps) ==
    /\ POLL_INTERVAL \in bases
    /\ MAX_AIRCRAFT_TO_QUERY \in caps
    /\ cache = [ts |-> 0, results |-> <<>>]
    /\ cache_lock = NoThread
    /\ results_ts = 0
    /\ now = 1
    /\ pc = [t \in Threads |-> IF t = Poller THEN "bm_fetch" ELSE "idle"]
    /\ bm = [t \in Threads |-> IF t = Poller THEN NewFrame ELSE NoFrame]
    /\ results = [t \in Threads |-> <<>>]
    /\ my_ts = [t \in Threads |-> 0]
    /\ sleep_s = POLL_INTERVAL
    /\ req = [r \in Requests |-> [kind |-> "none", nocache |-> FALSE]]
    /\ resp = [r \in Requests |-> NoResponse]
    /\ fetch_order = <<>>
    /\ stale = {}
    /\ api = 0
    /\ api_lock = NoThread
    /\ built = 0
    /\ gpc = [t \in Threads |-> "out"]
    /\ client = [t \in Threads |-> 0]
    /\ got = [t \in Threads |-> 0]
    /\ calls = [t \in Threads |-> 0]

----------------------------------------------------------------------------
(* One pass alone, over every upstream outcome and every cap *)

InitPass == InitWith({DefaultPollInterval}, 0..MaxCap)

NextPass ==
    \/ BmFetch(Poller, RegionOutcomes)
    \/ BmFilter(Poller)
    \/ BmLoop(Poller, HistoryOutcomes)
    \/ BmReturn(Poller)

SpecPass == InitPass /\ [][NextPass]_vars

----------------------------------------------------------------------------
(* One pass of the poller and the publication of its result, over every    *)
(* upstream outcome and every cap                                          *)

NextPublish ==
    \/ BmFetch(Poller, RegionOutcomes)
    \/ BmFilter(Poller)
    \/ BmLoop(Poller, HistoryOutcomes)
    \/ BmReturn(Poller)
    \/ WriterAcquire(Poller)
    \/ WriterSetTs(Poller)
    \/ WriterSetResults(Poller)

SpecPublish == InitPass /\ [][NextPublish]_vars

----------------------------------------------------------------------------
(* The poller alone, over every base interval *)

InitPoll == InitWith(1..MaxBase, {DefaultMaxAircraft})

NextPoll ==
    \/ BmFetch(Poller, FewRegionOutcomes)
    \/ BmFilter(Poller)
    \/ BmLoop(Poller, FewHistoryOutcomes)
    \/ BmReturn(Poller)
    \/ WriterAcquire(Poller)
    \/ WriterSetTs(Poller)
    \/ WriterSetResults(Poller)
    \/ PollerExcept
    \/ PollerSleep

SpecPoll == InitPoll /\ [][NextPoll]_vars

----------------------------------------------------------------------------
(* The poller and the request handlers together.  The base interval is set  *)
(* to the maximum here, which pins the backoff interval; SpecPoll varies it. *)

Init == InitWith({BackoffMax}, {DefaultMaxAircraft})

Next ==
    \/ \E t \in Threads :
          \/ BmFetch(t, FewRegionOutcomes)
          \/ BmFilter(t)
          \/ BmLoop(t, FewHistoryOutcomes)
          \/ BmReturn(t)
          \/ WriterAcquire(t)
          \/ WriterSetTs(t)
          \/ WriterSetResults(t)
    \/ PollerExcept
    \/ PollerSleep
    \/ \E r \in Requests :
          \/ RequestStart(r)
          \/ ReaderAcquire(r)
          \/ FlightsReadTs(r)
          \/ FlightsReadResults(r)
          \/ SimpleReadResults(r)
          \/ SimpleReadTs(r)
          \/ HealthAge(r)
          \/ HealthLen(r)

Spec == Init /\ [][Next]_vars

----------------------------------------------------------------------------
(* The same threads under fair scheduling: a thread that can take a step    *)
(* takes one, and an upstream call returns or fails in finite time          *)

PollerStep ==
    \/ BmFetch(Poller, FewRegionOutcomes)
    \/ BmFilter(Poller)
    \/ BmLoop(Poller, FewHistoryOutcomes)
    \/ BmReturn(Poller)
    \/ WriterAcquire(Poller)
    \/ WriterSetTs(Poller)
    \/ WriterSetResults(Poller)
    \/ PollerExcept
    \/ PollerSleep

HandlerStep(r) ==
    \/ BmFetch(r, FewRegionOutcomes)
    \/ BmFilter(r)
    \/ BmLoop(r, FewHistoryOutcomes)
    \/ BmReturn(r)
    \/ WriterAcquire(r)
    \/ WriterSetTs(r)
    \/ WriterSetResults(r)
    \/ ReaderAcquire(r)
    \/ FlightsReadTs(r)
    \/ FlightsReadResults(r)
    \/ SimpleReadResults(r)
    \/ SimpleReadTs(r)
    \/ HealthAge(r)
    \/ HealthLen(r)

\* the poller and one request handler contending for the cache lock
Contender == "r1"

NextFair ==
    \/ PollerStep
    \/ RequestStart(Contender)
    \/ HandlerStep(Contender)

SpecFair ==
    /\ Init
    /\ [][NextFair]_vars
    /\ WF_vars(PollerStep)
    /\ WF_vars(HandlerStep(Contender))

----------------------------------------------------------------------------
(* get_api: the lazily created OpenSkyApi client, called by every thread    *)
(* that runs a pass                                                         *)

\* _api_lock.acquire() goes through when no thread holds the lock
CanAcquireApiAlways(t) == TRUE
CanAcquireApi(t) == api_lock = NoThread

\* a thread calls get_api
GetApiCall(t) ==
    /\ gpc[t] = "out"
    /\ calls[t] < MaxCalls
    /\ calls' = [calls EXCEPT ![t] = @ + 1]
    /\ gpc' = [gpc EXCEPT ![t] = "check1"]
    /\ UNCHANGED <<pass_vars, api, api_lock, built, client, got>>

\* if _api is None: (outside the lock)
GetApiOuterCheck(t) ==
    /\ gpc[t] = "check1"
    /\ gpc' = [gpc EXCEPT ![t] = IF api = 0 THEN "lock" ELSE "return"]
    /\ UNCHANGED <<pass_vars, api, api_lock, built, client, got, calls>>

\* with _api_lock:
GetApiAcquire(t) ==
    /\ gpc[t] = "lock"
    /\ CanAcquireApi(t)
    /\ api_lock' = t
    /\ gpc' = [gpc EXCEPT ![t] = "check2"]
    /\ UNCHANGED <<pass_vars, api, built, client, got, calls>>

\* if _api is None: (under the lock)
GetApiInnerCheck(t) ==
    /\ gpc[t] = "check2"
    /\ gpc' = [gpc EXCEPT ![t] = IF api = 0 THEN "construct" ELSE "release"]
    /\ UNCHANGED <<pass_vars, api, api_lock, built, client, got, calls>>

\* OpenSkyApi(...): a new client, not yet bound to _api
GetApiConstruct(t) ==
    /\ gpc[t] = "construct"
    /\ built' = built + 1
    /\ client' = [client EXCEPT ![t] = built + 1]
    /\ gpc' = [gpc EXCEPT ![t] = "assign"]
    /\ UNCHANGED <<pass_vars, api, api_lock, got, calls>>

\* _api = <the new client>
GetApiAssign(t) ==
    /\ gpc[t] = "assign"
    /\ api' = client[t]
    /\ gpc' = [gpc EXCEPT ![t] = "release"]
    /\ UNCHANGED <<pass_vars, api_lock, built, client, got, calls>>

\* the with block ends
GetApiRelease(t) ==
    /\ gpc[t] = "release"
    /\ api_lock' = NoThread
    /\ gpc' = [gpc EXCEPT ![t] = "return"]
    /\ UNCHANGED <<pass_vars, api, built, client, got, calls>>

\* return _api
GetApiReturn(t) ==
    /\ gpc[t] = "return"
    /\ got' = [got EXCEPT ![t] = api]
    /\ gpc' = [gpc EXCEPT ![t] = "out"]
    /\ UNCHANGED <<pass_vars, api, api_lock, built, client, calls>>

NextApi ==
    \E t \in Threads :
        \/ GetApiCall(t)
        \/ GetApiOuterCheck(t)
        \/ GetApiAcquire(t)
        \/ GetApiInnerCheck(t)
        \/ GetApiConstruct(t)
        \/ GetApiAssign(t)
        \/ GetApiRelease(t)
        \/ GetApiReturn(t)

SpecApi == Init /\ [][NextApi]_vars

----------------------------------------------------------------------------
(* Claims *)

Reading == {"f_ts", "f_results", "s_results", "s_ts"}

\* C1: every response of api_flights and api_flights_simple reports a timestamp
\* and a result sequence stored by one and the same cache write, and no such
\* reader is at work while a writer stands between its two assignments.
C1_ResponseFromOneWrite ==
    \A r \in Requests :
        /\ resp[r].kind = "flights" =>
              /\ resp[r].fetched_at = resp[r].results_ts
              /\ resp[r].last_update = resp[r].results_ts
        /\ resp[r].kind = "simple" => resp[r].last_update = resp[r].results_ts
        /\ pc[r] \in Reading => \A t \in Threads : pc[t] # "w_results"

\* C1 witness: a reader is between its two reads of a published snapshot while a
\* writer waits for the lock with its own pass finished.
C1_Witness ==
    \E r \in Requests, t \in Threads :
        /\ pc[r] \in {"f_results", "s_ts"}
        /\ pc[t] = "w_acquire"
        /\ cache.ts # 0

\* C2: every /health response derives its cache age and its result count from
\* one and the same published snapshot.
C2_HealthFromOneSnapshot ==
    \A r \in Requests :
        resp[r].kind = "health" => resp[r].age_ts = resp[r].results_ts

\* C3: once a snapshot is published, a thread whose RegionQuery failed in this
\* pass (the poller in this iteration, or a force-refresh) leaves the cache's
\* timestamp and results as they were.
C3_FailedFetchKeepsSnapshot ==
    [][ \A t \in Threads :
          (cache.ts # 0 /\ bm[t].rq_failed /\ pc'[t] # pc[t]) => cache' = cache ]_vars

\* C4: the interval the poller sleeps after an iteration whose RegionQuery failed
\* is larger than the interval before it, or stays at the maximum.
C4_FailedFetchGrowsBackoff ==
    [][ (bm[Poller].rq_failed /\ pc[Poller] # "sleep" /\ pc'[Poller] = "sleep") =>
          \/ sleep_s' > sleep_s
          \/ sleep_s = BackoffMax /\ sleep_s' = BackoffMax ]_vars

C6_IntervalWithinBaseAndMax ==
    /\ sleep_s >= POLL_INTERVAL
    /\ sleep_s <= BackoffMax

\* C7: the interval after a failed pass is greater than or equal to the interval
\* before it, for every base interval >= 1.
C7_FailureNeverShrinksInterval ==
    [][ (pc[Poller] = "except" /\ pc'[Poller] = "sleep") => sleep_s' >= sleep_s ]_vars

\* C8: when an iteration whose pipeline call returned (an empty pass included)
\* goes to sleep, the interval is the base interval; the interval is set to
\* anything but the base only in an iteration whose pipeline call raised.
C8_SuccessResetsToBase ==
    [][ /\ (pc[Poller] # "sleep" /\ pc'[Poller] = "sleep"
              /\ bm'[Poller].status = "returned") => sleep_s' = POLL_INTERVAL
        /\ (sleep_s' # sleep_s /\ sleep_s' # POLL_INTERVAL) =>
              bm[Poller].status = "raised" ]_vars

\* C8 witness: an empty pass (RegionQuery failed) is about to publish and reset
\* while the interval stands above the base after earlier failures.
C8_Witness ==
    /\ pc[Poller] = "w_results"
    /\ bm[Poller].rq_failed
    /\ sleep_s > POLL_INTERVAL

\* C9: in an iteration of the poller whose pipeline call raised, no step changes
\* the cache; and whenever the poller goes to sleep, the cache's timestamp and
\* results come from one write.
C9_FailureEscapingPublishesNothing ==
    [][ /\ bm'[Poller].status = "raised" =>
              (cache' = cache /\ results_ts' = results_ts)
        /\ pc'[Poller] = "sleep" => cache'.ts = results_ts' ]_vars

\* C9 witness: the poller sleeps after a raised pipeline call and the snapshot
\* published before is still there.
C9_Witness ==
    /\ pc[Poller] = "sleep"
    /\ bm[Poller].status = "raised"
    /\ cache.ts # 0
    /\ cache.results # <<>>

\* C10: the candidates of a pass, its HistoryQuery calls and its results never
\* number more than the cap.
C10_CandidatesWithinCap ==
    \A t \in Threads :
        /\ Len(bm[t].turkish_aircraft) <= MAX_AIRCRAFT_TO_QUERY
        /\ bm[t].hq_calls <= MAX_AIRCRAFT_TO_QUERY
        /\ Len(bm[t].matches) <= MAX_AIRCRAFT_TO_QUERY
        /\ Len(results[t]) <= MAX_AIRCRAFT_TO_QUERY

\* C10 witness: upstream returned more in-polygon positions than the cap, and the
\* pass returned after exactly cap HistoryQuery calls.
C10_Witness ==
    /\ bm[Poller].status = "returned"
    /\ MAX_AIRCRAFT_TO_QUERY >= 1
    /\ Len(aircraft_over_turkey(bm[Poller].state_vectors)) > MAX_AIRCRAFT_TO_QUERY
    /\ bm[Poller].hq_calls = MAX_AIRCRAFT_TO_QUERY

\* an airport code that is present, has two characters or more and begins with
\* the letters L, L in either case
FlaggedCode(c) ==
    /\ ~c.none
    /\ Len(c.s) >= 2
    /\ c.s[1] \in {"L", "l"}
    /\ c.s[2] \in {"L", "l"}

\* a flight segment whose departure or arrival airport is flagged
Qualifies(f) == FlaggedCode(f.estDepartureAirport) \/ FlaggedCode(f.estArrivalAirport)

\* every result of the sequence has a segment, and all its segments qualify
WellMatched(ms) ==
    \A k \in 1..Len(ms) :
        /\ ms[k].matched_flights # <<>>
        /\ \A j \in 1..Len(ms[k].matched_flights) : Qualifies(ms[k].matched_flights[j])

\* C11: in every pass and in every published snapshot, every MatchResult has at
\* least one matched segment and each of its segments has a departure or an
\* arrival airport whose code is non-empty and starts with "LL" when upper-cased.
C11_ResultsHoldOnlyFlaggedSegments ==
    /\ \A t \in Threads : WellMatched(bm[t].matches) /\ WellMatched(results[t])
    /\ WellMatched(cache.results)

\* C11 witness: a published snapshot holds a result whose two segments were
\* matched by a lower-case arrival and by an upper-case departure.
C11_Witness ==
    /\ cache.ts # 0
    /\ \E k \in 1..Len(cache.results) :
          cache.results[k].matched_flights = <<Flight(LTBA, llbg), Flight(LLBG, LTBA)>>

\* C12: the cache changes only in the hands of the writer that holds the lock,
\* and when a writer (the poller or a force-refresh) lets go of the lock the
\* cache holds exactly the timestamp and the results this writer wrote; while
\* no thread holds the lock the two fields come from one write.
C12_LastWriterWins ==
    [][ /\ cache' # cache =>
              \E t \in Threads : cache_lock = t /\ pc[t] \in {"w_ts", "w_results"}
        /\ \A t \in Threads :
              (pc[t] = "w_results" /\ pc'[t] # "w_results") =>
                  /\ cache' = [ts |-> my_ts[t], results |-> results[t]]
                  /\ results_ts' = my_ts[t]
        /\ cache_lock' = NoThread => cache'.ts = results_ts' ]_vars

\* C12 witness: the poller and a force-refresh have both written, the
\* force-refresh last, and the cache holds the force-refresh's timestamp.
C12_Witness ==
    \E r \in Requests :
        /\ req[r].nocache
        /\ pc[r] = "r_acquire"
        /\ pc[Poller] = "sleep"
        /\ my_ts[Poller] # 0
        /\ my_ts[r] > my_ts[Poller]
        /\ cache.ts = my_ts[r]
        /\ cache_lock = NoThread

\* C13: no request handler waits for the cache lock while another handler holds
\* it to read the cache.
C13_ReadersNeverWait ==
    \A r \in Requests, q \in Requests :
        ~ /\ q # r
          /\ pc[r] = "r_acquire"
          /\ cache_lock = q
          /\ pc[q] \in Reading \cup {"h_age"}

\* C14: no thread holds the cache lock while it is inside RegionQuery, the
\* polygon filter or the HistoryQuery loop of a pass.
C14_NoLockAcrossUpstreamCalls ==
    \A t \in Threads :
        cache_lock = t => pc[t] \notin {"bm_fetch", "bm_filter", "bm_loop"}

\* C14 witness: a force-refresh is inside its HistoryQuery loop while another
\* thread holds the cache lock.
C14_Witness ==
    \E r \in Requests :
        /\ req[r].nocache
        /\ pc[r] = "bm_loop"
        /\ cache_lock \notin {NoThread, r}

\* the cache before its first publication, and what a reader reports of it:
\* the timestamp is 0 exactly as long as no writer has stamped the cache (the
\* writers' clock stands at its start), the results are then empty, a finished
\* publication leaves a timestamp other than 0, a timestamp without a finished
\* publication belongs to the writer in the middle of the first one, and a
\* response built from timestamp 0 has last_update null and status 'stale'
ColdCacheReported ==
    /\ cache.ts = 0 <=> now = 1
    /\ cache.ts = 0 => (cache.results = <<>> /\ results_ts = 0)
    /\ results_ts # 0 => cache.ts # 0
    /\ (cache.ts # 0 /\ results_ts = 0) => \E t \in Threads : pc[t] = "w_results"
    /\ \A r \in Requests :
          /\ (resp[r].kind = "flights" /\ resp[r].fetched_at = 0) =>
                (resp[r].last_update = 0 /\ resp[r].results = <<>>)
          /\ (resp[r].kind = "simple" /\ resp[r].results_ts = 0) =>
                (resp[r].last_update = 0 /\ resp[r].results = <<>>)
          /\ (resp[r].kind = "health" /\ resp[r].age_ts = 0) => resp[r].status = "stale"

\* C15: the cache starts with empty results and timestamp 0; the timestamp is 0
\* exactly when no pass has been published; a reader that sees timestamp 0
\* reports last_update null and /health 'stale'; and a timestamp other than 0
\* never goes back to 0.
C15_TimestampZeroMeansNeverPublished ==
    [][ /\ ColdCacheReported
        /\ ColdCacheReported'
        /\ cache.ts # 0 => cache'.ts # 0 ]_vars

\* C15 witness: /health answered 'stale' from timestamp 0, and a pass has been
\* published since.
C15_Witness ==
    \E r \in Requests :
        /\ resp[r].kind = "health"
        /\ resp[r].age_ts = 0
        /\ resp[r].status = "stale"
        /\ cache.ts # 0
        /\ results_ts # 0

\* C16: under fair scheduling the poller that has begun a pass reaches its sleep,
\* whether the pass returned or raised, and the poller that sleeps begins
\* another pass: the loop has no state it stays in for ever.
C16_PollLoopNeverStops ==
    /\ (pc[Poller] = "bm_fetch") ~> (pc[Poller] = "sleep")
    /\ (pc[Poller] = "sleep") ~> (pc[Poller] = "bm_fetch")

\* C16 witness: the poller is inside a pass that follows a published one, while
\* a force-refresh holds the cache lock.
C16_Witness ==
    /\ pc[Poller] = "bm_loop"
    /\ results_ts # 0
    /\ bm[Poller].hq_calls >= 1
    /\ \E r \in Requests : cache_lock = r /\ pc[r] = "w_results"

\* C17: for every base interval >= 1, the interval after a failed pass that
\* began with the interval below the maximum is greater than the interval
\* before it.
C17_FailureBelowMaxGrowsInterval ==
    [][ (pc[Poller] = "except" /\ pc'[Poller] = "sleep" /\ sleep_s < BackoffMax) =>
          sleep_s' > sleep_s ]_vars

\* C18: the matched segments of a candidate are the subsequence of the segments
\* HistoryQuery returned for it whose departure or arrival airport is flagged:
\* every qualifying segment is kept, as often as it occurs and in input order,
\* a null or empty code never qualifies, and case does not matter.
C18_MatchedSegmentsAreTheQualifyingSubsequence ==
    \A t \in Threads : bm[t].matched_info = SelectSeq(bm[t].flights, Qualifies)

\* C18 witness: of a segment with a lower-case flagged arrival and a segment with
\* a null departure and an empty arrival, the first alone was kept.
C18_Witness ==
    /\ bm[Poller].flights = <<Flight(LTBA, llbg), Flight(NoneStr, EmptyStr)>>
    /\ bm[Poller].matched_info = <<Flight(LTBA, llbg)>>

\* C19: an iteration whose HistoryQuery call failed leaves the matches as an
\* iteration with an empty history does, and the pass goes on: every iteration,
\* failed or not, keeps the results of the candidates before it and moves to
\* the next candidate, and the pass returns its matches after one call for each
\* candidate.
C19_HistoryFailureIsAnEmptyHistory ==
    [][ \A t \in Threads :
          /\ (pc[t] = "bm_loop" /\ bm'[t].hq_calls # bm[t].hq_calls) =>
                /\ pc'[t] = "bm_loop"
                /\ bm'[t].status = "running"
                /\ bm'[t].i = bm[t].i + 1
                /\ bm'[t].hq_calls = bm[t].hq_calls + 1
                /\ bm'[t].turkish_aircraft = bm[t].turkish_aircraft
                /\ Len(bm'[t].matches) >= Len(bm[t].matches)
                /\ SubSeq(bm'[t].matches, 1, Len(bm[t].matches)) = bm[t].matches
                /\ bm'[t].hq_failures # bm[t].hq_failures =>
                      /\ bm'[t].flights = <<>>
                      /\ bm'[t].matches = bm[t].matches
          /\ (pc[t] = "bm_loop" /\ bm'[t].status = "returned") =>
                /\ results'[t] = bm[t].matches
                /\ bm[t].hq_calls = Len(bm[t].turkish_aircraft) ]_vars

\* C19 witness: the pass returned the match of its second candidate although the
\* HistoryQuery call for its first candidate failed.
C19_Witness ==
    /\ bm[Poller].status = "returned"
    /\ bm[Poller].hq_failures = 1
    /\ Len(bm[Poller].turkish_aircraft) = 2
    /\ Len(results[Poller]) = 1
    /\ results[Poller][1].icao24 = bm[Poller].turkish_aircraft[2].icao24
    /\ bm[Poller].turkish_aircraft[1].icao24 # bm[Poller].turkish_aircraft[2].icao24

\* the first n in-polygon positions of the payload, in upstream order
FirstInPolygon(state_vectors, n) ==
    LET inside == SelectSeq(state_vectors, IsHit)
    IN [k \in 1..Min(n, Len(inside)) |-> Hit(inside[k])]

\* C20: the candidates of a pass are the first N in-polygon positions of the
\* payload in upstream order; every iteration appends one MatchResult for its
\* candidate when the candidate's history has a flagged segment and nothing
\* otherwise; and the pass returns these results after the last candidate.
C20_ResultIsFirstFlaggedCandidatesInOrder ==
    [][ \A t \in Threads :
          /\ pc'[t] = "bm_loop" =>
                bm'[t].turkish_aircraft =
                    FirstInPolygon(bm'[t].state_vectors, MAX_AIRCRAFT_TO_QUERY)
          /\ (pc[t] = "bm_loop" /\ bm'[t].i # bm[t].i) =>
                LET ac == bm[t].turkish_aircraft[bm[t].i]
                    flagged == SelectSeq(bm'[t].flights, Qualifies)
                IN /\ bm'[t].i = bm[t].i + 1
                   /\ bm'[t].matches =
                         IF flagged # <<>>
                         THEN Append(bm[t].matches,
                                     [icao24 |-> ac.icao24, lon |-> ac.lon, lat |-> ac.lat,
                                      matched_flights |-> flagged])
                         ELSE bm[t].matches
          /\ (pc[t] = "bm_loop" /\ bm'[t].status = "returned") =>
                /\ bm[t].i = Len(bm[t].turkish_aircraft) + 1
                /\ results'[t] = bm[t].matches ]_vars

\* C20 witness: with cap 1 and a payload of two positions inside the polygon,
\* the pass returned one result, that of the first position.
C20_Witness ==
    /\ bm[Poller].status = "returned"
    /\ MAX_AIRCRAFT_TO_QUERY = 1
    /\ bm[Poller].state_vectors = <<SvB, SvA>>
    /\ Len(results[Poller]) = 1
    /\ results[Poller][1].icao24 = SvB.icao24

\* a position of the payload with both coordinates, off the rectangle's
\* boundary and between its sides
InsideRegion(s) ==
    /\ s.ok
    /\ ~s.longitude.none
    /\ ~s.latitude.none
    /\ s.longitude.v \in (LonMin + 1)..(LonMax - 1)
    /\ s.latitude.v \in (LatMin + 1)..(LatMax - 1)

\* the candidate or result p carries the position of a payload element that
\* lies inside the region
FromInsideRegion(p, state_vectors) ==
    \E j \in 1..Len(state_vectors) :
        /\ InsideRegion(state_vectors[j])
        /\ p.icao24 = state_vectors[j].icao24
        /\ p.lon = state_vectors[j].longitude.v
        /\ p.lat = state_vectors[j].latitude.v

\* C21: every candidate and every MatchResult of a pass carries the position of
\* a payload element inside the polygon, and the pass issues no more
\* HistoryQuery calls than the payload has such elements: a position outside
\* the polygon or without longitude or latitude is never a candidate, never
\* queried and never in the results.
C21_OnlyPositionsInsideThePolygon ==
    \A t \in Threads :
        LET sv == bm[t].state_vectors
            inside == { j \in 1..Len(sv) : InsideRegion(sv[j]) }
        IN /\ \A k \in 1..Len(bm[t].turkish_aircraft) :
                 FromInsideRegion(bm[t].turkish_aircraft[k], sv)
           /\ \A k \in 1..Len(bm[t].matches) : FromInsideRegion(bm[t].matches[k], sv)
           /\ bm[t].status = "returned" =>
                 \A k \in 1..Len(results[t]) : FromInsideRegion(results[t][k], sv)
           /\ bm[t].hq_calls <= Cardinality(inside)

\* C21 witness: of a payload with a position on the polygon's edge and a
\* position inside, the pass queried and returned the second alone.
C21_Witness ==
    /\ bm[Poller].status = "returned"
    /\ bm[Poller].state_vectors = <<SvOut, SvA>>
    /\ MAX_AIRCRAFT_TO_QUERY = 2
    /\ bm[Poller].hq_calls = 1
    /\ Len(results[Poller]) = 1
    /\ results[Poller][1].icao24 = SvA.icao24

\* C22: the response to a force-refresh request carries the timestamp and the
\* results that this request wrote to the cache.
C22_ForceRefreshAnswersWithItsOwnPass ==
    \A r \in Requests :
        (req[r].nocache /\ resp[r].kind \in {"flights", "simple"}) =>
            /\ resp[r].results_ts = my_ts[r]
            /\ resp[r].last_update = my_ts[r]

\* C23: a pass whose RegionQuery call happened before that of a pass already
\* written to the cache is never written to the cache.
C23_NoEarlierFetchWrittenOverLater ==
    [][ \A t \in Threads :
          (pc[t] = "w_results" /\ pc'[t] # "w_results") => t \notin stale ]_vars

\* C23, amended: snapshots never go backwards in the time of their writing: the
\* cache's timestamp never decreases, and a writer that completes leaves its own
\* timestamp, no less than the one of the snapshot it replaces, together with
\* its results; the order of the passes' fetches plays no part.
C23_WritesNeverGoBackInTime ==
    [][ /\ cache'.ts >= cache.ts
        /\ \A t \in Threads :
              (pc[t] = "w_results" /\ pc'[t] # "w_results") =>
                  /\ results_ts' >= results_ts
                  /\ results_ts' = my_ts[t]
                  /\ cache'.ts = my_ts[t] ]_vars

\* C23 witness: a writer whose pass was fetched before the pass in the cache has
\* stamped the cache with a later timestamp and is about to store its results.
C23_Witness ==
    \E t \in Threads :
        /\ t \in stale
        /\ pc[t] = "w_results"
        /\ results_ts # 0
        /\ my_ts[t] > results_ts

\* C24: at most one OpenSkyApi client is ever constructed, _api is None or that
\* client, and every call of get_api that has returned returned that client,
\* never None.
C24_GetApiIsASingleton ==
    /\ built <= 1
    /\ api \in {0, built}
    /\ \A t \in Threads :
          /\ (calls[t] >= 1 /\ gpc[t] = "out") => (got[t] # 0 /\ got[t] = api)
          /\ got[t] # 0 => got[t] = api
          /\ gpc[t] = "return" => api # 0

\* C24 witness: two first calls raced: one thread has returned the client, and
\* another, which saw None outside the lock, finds the client under the lock.
C24_Witness ==
    \E t \in Threads, u \in Threads :
        /\ t # u
        /\ calls[t] = 1 /\ gpc[t] = "out" /\ got[t] = 1
        /\ calls[u] = 1 /\ gpc[u] = "check2" /\ api = 1

====
